---- MODULE Spec2Model ----
(***************************************************************************)
(* Model of the TRON sweeper: the run controller of app.py (start_bot,     *)
(* stop_bot, update_bot_status, run_bot_thread) and the sweep engine of    *)
(* src/sweeper.py (TronSweeper), over an abstract chain.                   *)
(*                                                                         *)
(* Amounts of TRX are counted in tenths of a TRX, token amounts in whole   *)
(* token units.  Every worker thread owns one TronSweeper instance; the    *)
(* variables indexed by Workers are that thread's locals and the fields of *)
(* its sweeper.  The control handlers run in the request thread and are    *)
(* one step each; the worker thread is interleaved with them at every      *)
(* access to the shared globals and at every call to the chain.            *)
(***************************************************************************)
EXTENDS Integers, Sequences, FiniteSets, TLC

\* ---------------------------------------------------------------- bounds
MaxWorkers == 2          \* thread slots that can be alive at the same time
MaxTime    == 1          \* distinct values of the wall clock (seconds)
MaxTrx     == 25         \* cap on the native balance of the wallet above
                         \* the reserve held for token fees (tenths)
MaxTok     == 3          \* cap on a token balance of the wallet

\* ------------------------------------------------------ program constants
TrxFee          == 5     \* estimate_energy_cost(False) = 0.5 TRX
TokenReserveEach == 100  \* 10.0 TRX reserved per configured token
DefaultMaxRetries == 3   \* Config: config_dict.get('max_retries', 3)

Workers == 1..MaxWorkers
Tokens  == {"T1", "T2"}
Assets  == {"TRX"} \cup Tokens
NoBal   == -1            \* no balance held (query failed or not made)
None    == "None"

\* What the environment does to the wallet.
TrxDeposits == {20}
TrxDrains   == {20}
TokDeposits == {3}
TokDrains   == {3}

\* The rows the configuration form can store (first row of BotConfig), as
\* Config() reads them: BotConfig has no max_retries column, so the default
\* applies.
ConfigChoices ==
  { [sweep_trx |-> TRUE,  sweep_trc20 |-> FALSE, token_contracts |-> <<>>,
     min_transfer_amount |-> 10, max_retries |-> DefaultMaxRetries, check_interval |-> 2],
    [sweep_trx |-> FALSE, sweep_trc20 |-> TRUE,  token_contracts |-> <<"T1">>,
     min_transfer_amount |-> 0,  max_retries |-> DefaultMaxRetries, check_interval |-> 1],
    [sweep_trx |-> TRUE,  sweep_trc20 |-> FALSE, token_contracts |-> <<>>,
     min_transfer_amount |-> 0,  max_retries |-> DefaultMaxRetries, check_interval |-> 0] }

\* No TokenConfig row for a contract address / a row as POST /config adds it.
NoToken == [present |-> FALSE, enabled |-> FALSE, min_transfer_amount |-> 0]

NewToken == [present |-> TRUE, enabled |-> TRUE, min_transfer_amount |-> 0]

\* The values /api/token/update writes to min_transfer_amount.
TokenMinimums == {0, 3}

NoConfig == [sweep_trx |-> TRUE, sweep_trc20 |-> FALSE, token_contracts |-> <<>>,
             min_transfer_amount |-> 0, max_retries |-> DefaultMaxRetries, check_interval |-> 0]

VARIABLES
  hasConfig,        \* a BotConfig row exists
  config,           \* the first BotConfig row, the one Config() loads;
                    \* the sweeper keeps the Config object it was built
                    \* with, loaded from this row
  saved,            \* the BotConfig row added last, the one the form shows
  registry,         \* the TokenConfig rows, by contract address
  api_keys,         \* TronClient.api_keys, from config.tron_api_keys
  api_key,          \* the TRON-PRO-API-KEY header of the provider
  api_call,         \* the last call of the client: its operation, the key
                    \* it was sent with and whether it returned
  bot_running,      \* app.py global
  bot_status,       \* app.py global
  bot_last_check,   \* app.py global; 0 is None
  writing,          \* per thread (0 is a request thread), the call of
                    \* update_bot_status it is inside, when the three
                    \* assignments are taken one at a time
  lastCall,         \* the last control call and what it returned
  stopPending,      \* the last successful control call was stop()
  trxBalance,       \* chain: native balance of the source wallet
  tokBalance,       \* chain: token balances of the source wallet
  lag,              \* chain: broadcast transfers the balance queries do not
                    \* show yet, per asset
  pc,               \* position of each worker thread
  last_trx_balance, \* TronSweeper.last_trx_balance
  token_balances,   \* TronSweeper.token_balances (missing key reads 0)
  current_balance,  \* local current_balance of the asset being processed
  tokIdx,           \* index in token_contracts of the token being processed
  token_configs,    \* local token_configs of check_and_sweep_tokens
  attempt,          \* local attempt of the retry loop
  errors,           \* local errors of the retry loop: the attempts that failed
  amount,           \* amount of the retry sequence in progress
  results,          \* successful transfers of the cycle, in order
  detected,         \* detection events fired for the asset being processed
  remaining,        \* local remaining_time of the polling wait
  unswept,          \* history: assets whose last retry sequence was
                    \* exhausted and whose balance on the chain has not
                    \* changed since the query that detected the increase
  hist              \* history: swept, the assets whose last transfer
                    \* succeeded with no funds arrived since; left, the
                    \* balance each asset had on the chain when its
                    \* processing in a cycle last ended (both kept only
                    \* while one worker is alive: with two there is no
                    \* single sequence of cycles); calls, per worker, the
                    \* transfer submissions of its retry sequence; slept,
                    \* per worker, whether its last step inside a retry
                    \* sequence slept retry_delay; rows, per worker, the
                    \* enabled TokenConfig rows of the configured tokens
                    \* when its cycle started; waited, per worker,
                    \* "late" when its cycle began with a stop pending,
                    \* "stop" when it finished a wait with a stop pending
                    \* that arrived after its cycle began, else "clear"
                    \* (rows and waited kept only while one worker is alive);
                    \* logged, the TransactionLog rows the last iteration
                    \* committed, until its wait begins;
                    \* fresh, the watched assets for which nothing has
                    \* arrived since the only live worker built its sweeper

ctlVars    == <<bot_running, bot_status, bot_last_check, writing>>
callVars   == <<lastCall, stopPending>>
clientVars == <<api_keys, api_key, api_call>>
cfgVars    == <<hasConfig, config, saved, registry, clientVars>>
chainVars  == <<trxBalance, tokBalance, lag>>
sweepVars  == <<last_trx_balance, token_balances, current_balance, tokIdx,
                token_configs, attempt, errors, amount, results, detected,
                remaining, unswept, hist>>
vars == <<hasConfig, config, saved, registry, api_keys, api_key, api_call,
          bot_running, bot_status, bot_last_check, writing, lastCall, stopPending, trxBalance, tokBalance, lag,
          pc, last_trx_balance, token_balances, current_balance, tokIdx,
          token_configs, attempt, errors, amount, results, detected,
          remaining, unswept, hist>>

\* ------------------------------------------------------------- helpers
Min(a, b) == IF a < b THEN a ELSE b

\* datetime.now(): the clock never runs backwards.
Now == {t \in 1..MaxTime : t >= bot_last_check}

get_bot_status ==
  [running |-> bot_running, status |-> bot_status, last_check |-> bot_last_check]

\* The threads that write the status globals: two request threads of the
\* web server (0 and -1) and the worker threads.
Requests == {-1, 0}

Threads == Requests \cup Workers

\* No call of update_bot_status in progress.
NoWrite == [status |-> None, running |-> FALSE, step |-> 0]

\* Every caller passes running, so the "running is None" case never occurs.
\* The call taken as one step.
update_bot_status(status, running, now) ==
  /\ bot_status' = status
  /\ bot_running' = running
  /\ bot_last_check' = now
  /\ UNCHANGED writing

\* The contract addresses of a JSON list.
Listed(token_contracts) ==
  {token_contracts[i] : i \in 1..Len(token_contracts)}

\* What a balance query returns: a transfer that was broadcast leaves the
\* balance only when it is confirmed.
SeenBal(a) == (IF a = "TRX" THEN trxBalance ELSE tokBalance[a]) + lag[a]

NoHist == [swept |-> {}, left |-> [a \in Assets |-> NoBal],
           calls |-> [w \in Workers |-> 0],
           slept |-> [w \in Workers |-> FALSE],
           rows |-> [w \in Workers |-> [t \in Tokens |-> NoToken]],
           waited |-> [w \in Workers |-> "clear"],
           fresh |-> {}, logged |-> <<>>]

\* Config.__init__: the validation of the operation settings.
ConfigLoads(row) ==
  /\ row.check_interval >= 1
  /\ row.min_transfer_amount >= 0
  /\ row.max_retries >= 0

\* No key in the header, no call made.
NoKey == ""

NoApiCall == [op |-> None, key |-> NoKey, ok |-> TRUE]

\* The state before the first request, with the API keys of the
\* environment among keySets.
InitWith(keySets) ==
  /\ hasConfig = FALSE
  /\ config = NoConfig
  /\ saved = NoConfig
  /\ api_keys \in keySets
  /\ api_key = NoKey
  /\ api_call = NoApiCall
  /\ registry = [t \in Tokens |-> NoToken]
  /\ bot_running = FALSE
  /\ bot_status = "Stopped"
  /\ bot_last_check = 0
  /\ writing = [th \in Threads |-> NoWrite]
  /\ lastCall = [op |-> None, ok |-> FALSE]
  /\ stopPending = FALSE
  /\ trxBalance = 0
  /\ tokBalance = [t \in Tokens |-> 0]
  /\ lag = [a \in Assets |-> 0]
  /\ pc = [w \in Workers |-> "none"]
  /\ last_trx_balance = [w \in Workers |-> 0]
  /\ token_balances = [w \in Workers |-> [t \in Tokens |-> 0]]
  /\ current_balance = [w \in Workers |-> NoBal]
  /\ tokIdx = [w \in Workers |-> 0]
  /\ token_configs = [w \in Workers |-> [t \in Tokens |-> NoToken]]
  /\ attempt = [w \in Workers |-> 0]
  /\ errors = [w \in Workers |-> <<>>]
  /\ amount = [w \in Workers |-> 0]
  /\ results = [w \in Workers |-> <<>>]
  /\ detected = [w \in Workers |-> 0]
  /\ remaining = [w \in Workers |-> 0]
  /\ unswept = [w \in Workers |-> {}]
  /\ hist = NoHist

Init == InitWith({{}})

\* ------------------------------------------------- the configuration form
\* POST /config adds a row; Config() keeps loading the first one.  For the
\* contracts of the new row that have no TokenConfig row yet and whose
\* get_token_info call succeeds (okTokens), a row is added.
SaveConfig(row, okTokens) ==
  /\ hasConfig' = TRUE
  /\ config' = IF hasConfig THEN config ELSE row
  /\ saved' = row
  /\ registry' = [t \in Tokens |->
                    IF /\ row.sweep_trc20
                       /\ t \in Listed(row.token_contracts) \cap okTokens
                       /\ ~registry[t].present
                    THEN NewToken ELSE registry[t]]
  /\ UNCHANGED <<clientVars, ctlVars, callVars, chainVars, pc, sweepVars>>

\* POST /api/token/update with field 'enabled'.
TokenSetEnabled(t, value) ==
  /\ registry[t].present
  /\ registry' = [registry EXCEPT ![t].enabled = value]
  /\ UNCHANGED <<hasConfig, config, saved, clientVars, ctlVars, callVars,
                 chainVars, pc,
                 sweepVars>>

\* POST /api/token/update with field 'min_transfer_amount'.
TokenSetMinimum(t, value) ==
  /\ registry[t].present
  /\ registry' = [registry EXCEPT ![t].min_transfer_amount = value]
  /\ UNCHANGED <<hasConfig, config, saved, clientVars, ctlVars, callVars,
                 chainVars, pc,
                 sweepVars>>

\* ------------------------------------------------------- the environment
Forget(a) == [w \in Workers |-> unswept[w] \ {a}]

\* New funds arrived for asset a.
Arrived(a) == [hist EXCEPT !.swept = @ \ {a}, !.fresh = @ \ {a}]

\* The assets the engine watches.
Watched ==
  (IF config.sweep_trx THEN {"TRX"} ELSE {})
    \cup (IF config.sweep_trc20 THEN Listed(config.token_contracts) ELSE {})

\* The native funds the operator keeps in the wallet for the token fees.
Reserved ==
  IF config.sweep_trc20
  THEN Len(config.token_contracts) * TokenReserveEach ELSE 0

envFrame == <<cfgVars, ctlVars, callVars, pc, last_trx_balance, token_balances,
              current_balance, tokIdx, token_configs, attempt, errors, amount,
              results, detected, remaining>>

DepositTrx(d) ==
  /\ "TRX" \in Watched
  /\ SeenBal("TRX") + d <= MaxTrx + Reserved
  /\ trxBalance' = trxBalance + d
  /\ unswept' = Forget("TRX")
  /\ hist' = Arrived("TRX")
  /\ UNCHANGED <<envFrame, tokBalance, lag>>

DrainTrx(d) ==
  /\ "TRX" \in Watched
  /\ trxBalance - d >= Reserved
  /\ trxBalance' = trxBalance - d
  /\ unswept' = Forget("TRX")
  /\ UNCHANGED <<envFrame, tokBalance, lag, hist>>

DepositToken(t, d) ==
  /\ t \in Watched
  /\ SeenBal(t) + d <= MaxTok
  /\ tokBalance' = [tokBalance EXCEPT ![t] = @ + d]
  /\ unswept' = Forget(t)
  /\ hist' = Arrived(t)
  /\ UNCHANGED <<envFrame, trxBalance, lag>>

DrainToken(t, d) ==
  /\ t \in Watched
  /\ tokBalance[t] >= d
  /\ tokBalance' = [tokBalance EXCEPT ![t] = @ - d]
  /\ unswept' = Forget(t)
  /\ UNCHANGED <<envFrame, trxBalance, lag, hist>>

\* A broadcast transfer of asset a is confirmed: the queries show it.
Settle(a) ==
  /\ lag[a] > 0
  /\ lag' = [lag EXCEPT ![a] = 0]
  /\ unswept' = Forget(a)
  /\ UNCHANGED <<envFrame, trxBalance, tokBalance, hist>>

\* ------------------------------------------------------ the control surface
FreeSlots == {w \in Workers : pc[w] = "none"}

\* threading.Thread(target=run_bot_thread).start(): a new thread with fresh
\* locals, in the lowest free slot.
Spawn(w) ==
  /\ pc' = [pc EXCEPT ![w] = "boot"]
  /\ UNCHANGED sweepVars

\* start_bot without its "if bot_running: return False".
start_bot_NoRunningCheck ==
  IF ~hasConfig
  THEN /\ \E now \in Now : update_bot_status("No configuration found", FALSE, now)
       /\ lastCall' = [op |-> "start", ok |-> FALSE]
       /\ UNCHANGED <<cfgVars, stopPending, chainVars, pc, sweepVars>>
  ELSE /\ FreeSlots # {}
       /\ \E now \in Now : update_bot_status("Starting...", TRUE, now)
       /\ Spawn(CHOOSE w \in FreeSlots : \A v \in FreeSlots : w <= v)
       /\ lastCall' = [op |-> "start", ok |-> TRUE]
       /\ stopPending' = FALSE
       /\ UNCHANGED <<cfgVars, chainVars>>

\* start_bot without its "if not config: ... return False".
start_bot_NoConfigCheck ==
  IF bot_running
  THEN /\ lastCall' = [op |-> "start", ok |-> FALSE]
       /\ UNCHANGED <<cfgVars, ctlVars, stopPending, chainVars, pc, sweepVars>>
  ELSE /\ FreeSlots # {}
       /\ \E now \in Now : update_bot_status("Starting...", TRUE, now)
       /\ Spawn(CHOOSE w \in FreeSlots : \A v \in FreeSlots : w <= v)
       /\ lastCall' = [op |-> "start", ok |-> TRUE]
       /\ stopPending' = FALSE
       /\ UNCHANGED <<cfgVars, chainVars>>

\* def start_bot(), called by POST /api/start.
start_bot ==
  IF bot_running
  THEN /\ lastCall' = [op |-> "start", ok |-> FALSE]
       /\ UNCHANGED <<cfgVars, ctlVars, stopPending, chainVars, pc, sweepVars>>
  ELSE IF ~hasConfig
  THEN /\ \E now \in Now : update_bot_status("No configuration found", FALSE, now)
       /\ lastCall' = [op |-> "start", ok |-> FALSE]
       /\ UNCHANGED <<cfgVars, stopPending, chainVars, pc, sweepVars>>
  ELSE /\ FreeSlots # {}
       /\ \E now \in Now : update_bot_status("Starting...", TRUE, now)
       /\ Spawn(CHOOSE w \in FreeSlots : \A v \in FreeSlots : w <= v)
       /\ lastCall' = [op |-> "start", ok |-> TRUE]
       /\ stopPending' = FALSE
       /\ UNCHANGED <<cfgVars, chainVars>>

\* stop_bot without its "if not bot_running: return False".
stop_bot_NoRunningCheck ==
  /\ \E now \in Now : update_bot_status("Stopping...", FALSE, now)
  /\ lastCall' = [op |-> "stop", ok |-> TRUE]
  /\ stopPending' = TRUE
  /\ UNCHANGED <<cfgVars, chainVars, pc, sweepVars>>

\* def stop_bot(), called by POST /api/stop.
stop_bot ==
  IF ~bot_running
  THEN /\ lastCall' = [op |-> "stop", ok |-> FALSE]
       /\ UNCHANGED <<cfgVars, ctlVars, stopPending, chainVars, pc, sweepVars>>
  ELSE /\ \E now \in Now : update_bot_status("Stopping...", FALSE, now)
       /\ lastCall' = [op |-> "stop", ok |-> TRUE]
       /\ stopPending' = TRUE
       /\ UNCHANGED <<cfgVars, chainVars, pc, sweepVars>>

\* ------------------------------------------------------------ the sweeper
\* The amount with a minimum that must be exceeded.
_calculate_sweepable_trx_amount_StrictMinimum(cur, reserve_for_tokens) ==
  LET token_reserves == IF reserve_for_tokens
                        THEN Len(config.token_contracts) * TokenReserveEach
                        ELSE 0
      sweepable_amount == cur - (TrxFee + token_reserves)
  IN  IF sweepable_amount <= config.min_transfer_amount THEN 0
      ELSE sweepable_amount

\* TronSweeper._calculate_sweepable_trx_amount
_calculate_sweepable_trx_amount(cur, reserve_for_tokens) ==
  LET token_reserves == IF reserve_for_tokens
                        THEN Len(config.token_contracts) * TokenReserveEach
                        ELSE 0
      estimated_fee == TrxFee + token_reserves
      sweepable_amount == cur - estimated_fee
  IN  IF sweepable_amount < config.min_transfer_amount THEN 0
      ELSE IF sweepable_amount <= 0 THEN 0
      ELSE sweepable_amount

\* The token list alone, whether or not token sweeping is enabled.
TokensOn_ListOnly == config.token_contracts # <<>>

\* The token pass entered on the enabled flag alone.
TokensOn_FlagOnly == config.sweep_trc20

\* sweep_trc20 and self.token_contracts
TokensOn == config.sweep_trc20 /\ config.token_contracts # <<>>

\* token_balances.get(contract_address, 0)
TokenBalanceGet(w, t) == token_balances[w][t]

\* The dictionary check_and_sweep_tokens builds from the TokenConfig rows:
\* the query keeps the rows of the configured contracts with enabled = True.
EnabledRows ==
  [t \in Tokens |->
     IF /\ t \in Listed(config.token_contracts)
        /\ registry[t].present
        /\ registry[t].enabled
     THEN registry[t] ELSE NoToken]

\* The except branch recording the balance just queried.
RetryKeepsCache_Advance(w) ==
  token_balances' = [token_balances EXCEPT ![w] =
                       [t \in Tokens |-> IF t = config.token_contracts[tokIdx[w]]
                                         THEN current_balance[w] ELSE @[t]]]

\* The except branch of the token retry loop: the message is recorded and
\* the delay slept; self.token_balances is not assigned.
RetryKeepsCache(w) == UNCHANGED token_balances

\* A retry that works the amount out again from a fresh balance query.
RetryAmount_Requeried(w) ==
  amount' = [amount EXCEPT ![w] =
               IF pc[w] = "trx_wait"
               THEN _calculate_sweepable_trx_amount(SeenBal("TRX"), TokensOn)
               ELSE SeenBal(config.token_contracts[tokIdx[w]])]

\* The next attempt passes the same sweepable_amount / current_balance: the
\* value was computed before the retry loop.
RetryAmount(w) == UNCHANGED amount

\* The delay slept after every failed attempt.
RetrySleeps_Always(w) == TRUE

\* if attempt < self.config.max_retries: time.sleep(self.config.retry_delay)
RetrySleeps(w) == attempt[w] < config.max_retries

\* History: a call of worker w has raised and its except branch has run.
Slept(h, w) == [h EXCEPT !.slept[w] = RetrySleeps(w)]

\* The retry loop with one iteration more.
MoreAttempts_OneMore(w) == attempt[w] <= config.max_retries

\* The retry loop with one iteration less.
MoreAttempts_OneLess(w) == attempt[w] < config.max_retries - 1

\* for attempt in range(1, max_retries + 1): one more iteration follows.
MoreAttempts(w) == attempt[w] < config.max_retries

\* A retry loop that makes its first call whatever max_retries is.
FirstAttempt_Always == TRUE

\* The retry loop runs at least once.
FirstAttempt == config.max_retries >= 1

\* if current_balance > min_transfer
TokenSweepable(cur, min_transfer) == cur > min_transfer

\* results.append(...): the outcomes of the cycle so far, then this one.
Collect(res, outcome) == Append(res, outcome)

FreshLocals(w) ==
  /\ current_balance' = [current_balance EXCEPT ![w] = NoBal]
  /\ tokIdx' = [tokIdx EXCEPT ![w] = 0]
  /\ token_configs' = [token_configs EXCEPT ![w] = [t \in Tokens |-> NoToken]]
  /\ attempt' = [attempt EXCEPT ![w] = 0]
  /\ errors' = [errors EXCEPT ![w] = <<>>]
  /\ amount' = [amount EXCEPT ![w] = 0]
  /\ detected' = [detected EXCEPT ![w] = 0]

Goto(w, p) == pc' = [pc EXCEPT ![w] = p]

\* History: the processing of asset a by worker w ends.
\* bal is the balance the asset then has on the chain.
Alone(w) == \A v \in Workers \ {w} : pc[v] = "none"

Ended(h, w, a, bal) ==
  IF Alone(w)
  THEN [h EXCEPT !.left[a] = bal, !.calls[w] = 0, !.slept[w] = FALSE]
  ELSE [NoHist EXCEPT !.calls = [h.calls EXCEPT ![w] = 0],
                      !.slept = [h.slept EXCEPT ![w] = FALSE]]

\* History: worker w finishes the wait after a cycle.
WaitEnds(h, w) ==
  IF Alone(w) /\ stopPending /\ h.waited[w] = "clear"
  THEN [h EXCEPT !.waited[w] = "stop"] ELSE h

\* History: a transfer of asset a by worker w succeeded.
Swept(h, w, a) ==
  IF Alone(w) THEN [h EXCEPT !.swept = @ \cup {a}] ELSE h

\* ------------------------------------------------------ the worker thread
\* run_bot_thread up to its first status write.
Boot(w) ==
  /\ pc[w] = "boot"
  /\ \E now \in Now : update_bot_status("Running", TRUE, now)
  /\ Goto(w, "load")
  /\ UNCHANGED <<cfgVars, callVars, chainVars, sweepVars>>

\* TronSweeper.__init__: the baseline balances; a token whose query fails
\* gets no entry.
InitBalances(w, okTokens) ==
  /\ last_trx_balance' = [last_trx_balance EXCEPT ![w] = SeenBal("TRX")]
  /\ token_balances' = [token_balances EXCEPT ![w] =
       [t \in Tokens |->
          IF TokensOn /\ t \in Listed(config.token_contracts) \cap okTokens
          THEN SeenBal(t) ELSE 0]]

\* Config(), the status write that follows it, and TronSweeper(config);
\* Config() or the native balance query of the constructor may raise.
LoadConfig(w) ==
  /\ pc[w] = "load"
  /\ IF ConfigLoads(config)
     THEN /\ \E now \in Now : update_bot_status("Monitoring", TRUE, now)
          /\ \E ok \in BOOLEAN, okTokens \in SUBSET Listed(config.token_contracts) :
               IF ok
               THEN /\ InitBalances(w, okTokens)
                    /\ Goto(w, "loop")
                    /\ hist' = [hist EXCEPT !.fresh = IF Alone(w) THEN Watched
                                                      ELSE {}]
               ELSE /\ Goto(w, "cfgerr")
                    /\ UNCHANGED <<last_trx_balance, token_balances, hist>>
     ELSE /\ Goto(w, "cfgerr")
          /\ UNCHANGED <<ctlVars, last_trx_balance, token_balances, hist>>
  /\ UNCHANGED <<cfgVars, callVars, chainVars, current_balance, tokIdx,
                 token_configs, attempt, errors, amount, results, detected,
                 remaining, unswept>>

\* The handler of the configuration errors going back to the loop.
AfterConfigError_Continue == "loop"

\* The handler of the configuration errors ends with "return": the finally
\* block of run_bot_thread is next.
AfterConfigError == "fin"

\* except Exception (configuration could not be loaded); return.  When the
\* database write of this handler raises, the outer handler writes its own
\* status.
ConfigError(w) ==
  /\ pc[w] = "cfgerr"
  /\ \E now \in Now, ok \in BOOLEAN :
       update_bot_status(IF ok THEN "Configuration error" ELSE "Critical error",
                         FALSE, now)
  /\ Goto(w, AfterConfigError)
  /\ UNCHANGED <<cfgVars, callVars, chainVars, sweepVars>>

\* finally: the thread ends.
Finally(w) ==
  /\ pc[w] = "fin"
  /\ \E now \in Now : update_bot_status("Stopped", FALSE, now)
  /\ Goto(w, "none")
  /\ FreshLocals(w)
  /\ last_trx_balance' = [last_trx_balance EXCEPT ![w] = 0]
  /\ token_balances' = [token_balances EXCEPT ![w] = [t \in Tokens |-> 0]]
  /\ results' = [results EXCEPT ![w] = <<>>]
  /\ remaining' = [remaining EXCEPT ![w] = 0]
  /\ unswept' = [unswept EXCEPT ![w] = {}]
  /\ hist' = IF Alone(w) THEN NoHist
             ELSE [hist EXCEPT !.calls[w] = 0, !.slept[w] = FALSE,
                               !.rows[w] = [t \in Tokens |-> NoToken],
                               !.waited[w] = "clear", !.fresh = {}]
  /\ UNCHANGED <<cfgVars, callVars, chainVars>>

\* check_and_sweep_tokens up to its loop: the TokenConfig query, which
\* leaves an empty dictionary when it raises.
TokenPass(w) ==
  \E ok \in BOOLEAN :
    token_configs' = [token_configs EXCEPT ![w] =
                        IF ok THEN EnabledRows ELSE [t \in Tokens |-> NoToken]]

\* while bot_running: ... results = sweeper.check_and_sweep()
LoopCheck(w) ==
  /\ pc[w] = "loop"
  /\ IF bot_running
     THEN /\ tokIdx' = [tokIdx EXCEPT ![w] = IF config.sweep_trx THEN 0 ELSE 1]
          /\ Goto(w, IF config.sweep_trx THEN "trx_query"
                     ELSE IF TokensOn THEN "tok_query" ELSE "report")
          /\ IF ~config.sweep_trx /\ TokensOn
             THEN TokenPass(w) ELSE UNCHANGED token_configs
          /\ hist' = IF Alone(w)
                      THEN [hist EXCEPT !.rows[w] = EnabledRows,
                                        !.waited[w] = IF stopPending
                                                      THEN "late" ELSE "clear"]
                      ELSE [hist EXCEPT !.rows = NoHist.rows,
                                        !.waited = NoHist.waited]
     ELSE /\ Goto(w, "fin")
          /\ UNCHANGED <<tokIdx, token_configs, hist>>
  /\ UNCHANGED <<cfgVars, ctlVars, callVars, chainVars, last_trx_balance,
                 token_balances, current_balance, attempt, errors, amount,
                 results, detected, remaining, unswept>>

\* check_and_sweep_trx: the balance query, the comparison, the amount and
\* the call of tron_client.transfer_trx (the transfer is then in flight).
TrxQuery(w) ==
  /\ pc[w] = "trx_query"
  /\ \E ok \in BOOLEAN :
       IF ~ok
       THEN /\ current_balance' = [current_balance EXCEPT ![w] = NoBal]
            /\ Goto(w, "trx_finally")
            /\ UNCHANGED <<attempt, errors, amount, detected, hist>>
       ELSE LET cur == SeenBal("TRX")
                sweepable_amount == _calculate_sweepable_trx_amount(cur, TokensOn)
            IN  /\ current_balance' = [current_balance EXCEPT ![w] = cur]
                /\ IF cur <= last_trx_balance[w]
                   THEN /\ detected' = [detected EXCEPT ![w] = 0]
                        /\ Goto(w, "trx_finally")
                        /\ UNCHANGED <<attempt, errors, amount, hist>>
                   ELSE /\ detected' = [detected EXCEPT ![w] = 1]
                        /\ IF sweepable_amount > 0 /\ FirstAttempt
                           THEN /\ amount' = [amount EXCEPT ![w] = sweepable_amount]
                                /\ attempt' = [attempt EXCEPT ![w] = 1]
                                /\ errors' = [errors EXCEPT ![w] = <<>>]
                                /\ hist' = [hist EXCEPT !.calls[w] = 1,
                                                         !.slept[w] = FALSE]
                                /\ Goto(w, "trx_wait")
                           ELSE /\ Goto(w, "trx_finally")
                                /\ UNCHANGED <<attempt, errors, amount, hist>>
  /\ UNCHANGED <<cfgVars, ctlVars, callVars, chainVars, last_trx_balance,
                 token_balances, tokIdx, token_configs, results, remaining,
                 unswept>>

\* transfer_trx returns a record or raises; it returns when the transaction
\* is broadcast, so the balance queries may show it only later.  After a
\* failure that is not the last one, time.sleep(retry_delay) and the next
\* call.
TrxReturn(w) ==
  /\ pc[w] = "trx_wait"
  /\ \E ok \in BOOLEAN, late \in BOOLEAN :
       IF ok
       THEN /\ amount[w] <= trxBalance
            /\ trxBalance' = trxBalance - amount[w]
            /\ lag' = [lag EXCEPT !["TRX"] = IF late THEN @ + amount[w] ELSE @]
            /\ results' = [results EXCEPT ![w] =
                             Collect(@, <<"TRX", amount[w]>>)]
            /\ unswept' = Forget("TRX")
            /\ hist' = [Swept(hist, w, "TRX") EXCEPT !.calls[w] = 0,
                                                     !.slept[w] = FALSE]
            /\ Goto(w, "trx_finally")
            /\ UNCHANGED <<attempt, errors, amount>>
       ELSE /\ ~late
            /\ UNCHANGED <<trxBalance, lag, results>>
            /\ errors' = [errors EXCEPT ![w] = Append(@, attempt[w])]
            /\ IF MoreAttempts(w)
               THEN /\ attempt' = [attempt EXCEPT ![w] = @ + 1]
                    /\ hist' = Slept([hist EXCEPT !.calls[w] = @ + 1], w)
                    /\ RetryAmount(w)
                    /\ UNCHANGED <<pc, unswept>>
               ELSE /\ unswept' = [unswept EXCEPT ![w] =
                                   IF /\ SeenBal("TRX") = current_balance[w]
                                      /\ lag["TRX"] = 0
                                   THEN @ \cup {"TRX"} ELSE @]
                    /\ hist' = Slept([hist EXCEPT !.calls[w] = 0], w)
                    /\ Goto(w, "trx_finally")
                    /\ UNCHANGED <<attempt, amount>>
  /\ UNCHANGED <<cfgVars, ctlVars, callVars, tokBalance, last_trx_balance,
                 token_balances, current_balance, tokIdx, token_configs,
                 detected, remaining>>

\* check_and_sweep, after check_and_sweep_trx: the token pass, if any.
AfterTrx == IF TokensOn THEN "tok_query" ELSE "report"

\* finally: self.last_trx_balance = self._get_current_trx_balance(); when
\* the query raises, the exception leaves check_and_sweep.
TrxFinally(w) ==
  /\ pc[w] = "trx_finally"
  /\ \E ok \in BOOLEAN :
       IF ok
       THEN /\ last_trx_balance' =
                 [last_trx_balance EXCEPT ![w] = SeenBal("TRX")]
            /\ tokIdx' = [tokIdx EXCEPT ![w] = 1]
            /\ Goto(w, AfterTrx)
            /\ IF TokensOn THEN TokenPass(w) ELSE UNCHANGED token_configs
       ELSE /\ Goto(w, "err")
            /\ UNCHANGED <<last_trx_balance, tokIdx, token_configs>>
  /\ attempt' = [attempt EXCEPT ![w] = 0]
  /\ errors' = [errors EXCEPT ![w] = <<>>]
  /\ amount' = [amount EXCEPT ![w] = 0]
  /\ hist' = Ended(hist, w, "TRX", trxBalance)
  /\ UNCHANGED <<cfgVars, ctlVars, callVars, chainVars, token_balances,
                 current_balance, results, detected, remaining, unswept>>

CurToken(w) == config.token_contracts[tokIdx[w]]

\* for contract_address in self.token_contracts: the next iteration.
NextToken(w) ==
  IF tokIdx[w] < Len(config.token_contracts)
  THEN /\ tokIdx' = [tokIdx EXCEPT ![w] = @ + 1]
       /\ Goto(w, "tok_query")
  ELSE /\ Goto(w, "report")
       /\ UNCHANGED tokIdx

\* if contract_address in token_configs and not token_configs[..].enabled
SkipDisabled(w, t) ==
  token_configs[w][t].present /\ ~token_configs[w][t].enabled

\* min_transfer: the override of the token's row in token_configs, else 0.
MinTransfer(w, t) ==
  IF token_configs[w][t].present
  THEN token_configs[w][t].min_transfer_amount ELSE 0

\* One token: the check of its row, the queries (get_token_info and
\* get_token_balance), the comparison, the minimum and the call of
\* tron_client.transfer_token (the transfer is then in flight).
TokQuery(w) ==
  /\ pc[w] = "tok_query"
  /\ LET t == CurToken(w)
         done == Ended(hist, w, t, tokBalance[t])
     IN
     \E ok \in BOOLEAN :
       IF SkipDisabled(w, t) \/ ~ok
       THEN /\ ~SkipDisabled(w, t) \/ ok
            /\ current_balance' = [current_balance EXCEPT ![w] = NoBal]
            /\ NextToken(w)
            /\ hist' = done
            /\ errors' = [errors EXCEPT ![w] = <<>>]
            /\ UNCHANGED <<token_balances, attempt, amount, detected>>
       ELSE LET cur == SeenBal(t)
                min_transfer == MinTransfer(w, t)
            IN  /\ current_balance' = [current_balance EXCEPT ![w] = cur]
                /\ IF cur <= TokenBalanceGet(w, t)
                   THEN /\ detected' = [detected EXCEPT ![w] = 0]
                        /\ NextToken(w)
                        /\ hist' = done
                        /\ errors' = [errors EXCEPT ![w] = <<>>]
                        /\ UNCHANGED <<token_balances, attempt, amount>>
                   ELSE /\ detected' = [detected EXCEPT ![w] = 1]
                        /\ IF TokenSweepable(cur, min_transfer) /\ FirstAttempt
                           THEN /\ amount' = [amount EXCEPT ![w] = cur]
                                /\ attempt' = [attempt EXCEPT ![w] = 1]
                                /\ errors' = [errors EXCEPT ![w] = <<>>]
                                /\ hist' = [hist EXCEPT !.calls[w] = 1,
                                                         !.slept[w] = FALSE]
                                /\ Goto(w, "tok_wait")
                                /\ UNCHANGED <<token_balances, tokIdx>>
                           ELSE /\ token_balances' =
                                     [token_balances EXCEPT ![w][t] = cur]
                                /\ NextToken(w)
                                /\ hist' = done
                                /\ errors' = [errors EXCEPT ![w] = <<>>]
                                /\ UNCHANGED <<attempt, amount>>
  /\ UNCHANGED <<cfgVars, ctlVars, callVars, chainVars, last_trx_balance,
                 token_configs, results, remaining, unswept>>

\* transfer_token returns a record or raises; after the last attempt
\* self.token_balances[contract_address] = current_balance.
TokReturn(w) ==
  /\ pc[w] = "tok_wait"
  /\ LET t == CurToken(w) IN
     \E ok \in BOOLEAN, late \in BOOLEAN :
       IF ok
       THEN /\ amount[w] <= tokBalance[t]
            /\ tokBalance' = [tokBalance EXCEPT ![t] = @ - amount[w]]
            /\ lag' = [lag EXCEPT ![t] = IF late THEN @ + amount[w] ELSE @]
            /\ results' = [results EXCEPT ![w] = Collect(@, <<t, amount[w]>>)]
            /\ unswept' = Forget(t)
            /\ token_balances' =
                 [token_balances EXCEPT ![w][t] = current_balance[w]]
            /\ attempt' = [attempt EXCEPT ![w] = 0]
            /\ errors' = [errors EXCEPT ![w] = <<>>]
            /\ amount' = [amount EXCEPT ![w] = 0]
            /\ hist' = Ended(Swept(hist, w, t), w, t,
                             tokBalance[t] - amount[w])
            /\ NextToken(w)
       ELSE /\ ~late
            /\ UNCHANGED <<tokBalance, lag, results>>
            /\ errors' = [errors EXCEPT ![w] = Append(@, attempt[w])]
            /\ IF MoreAttempts(w)
               THEN /\ attempt' = [attempt EXCEPT ![w] = @ + 1]
                    /\ hist' = Slept([hist EXCEPT !.calls[w] = @ + 1], w)
                    /\ RetryKeepsCache(w)
                    /\ RetryAmount(w)
                    /\ UNCHANGED <<pc, unswept, tokIdx>>
               ELSE /\ unswept' = [unswept EXCEPT ![w] =
                                   IF /\ SeenBal(t) = current_balance[w]
                                      /\ lag[t] = 0
                                   THEN @ \cup {t} ELSE @]
                    /\ token_balances' =
                         [token_balances EXCEPT ![w][t] = current_balance[w]]
                    /\ attempt' = [attempt EXCEPT ![w] = 0]
                    /\ amount' = [amount EXCEPT ![w] = 0]
                    /\ hist' = Slept(Ended(hist, w, t, tokBalance[t]), w)
                    /\ NextToken(w)
  /\ UNCHANGED <<cfgVars, ctlVars, callVars, trxBalance, last_trx_balance,
                 current_balance, token_configs, detected, remaining>>

\* check_and_sweep returning a list whenever something was swept.
check_and_sweep_return_AlwaysList(res) ==
  [shape |-> IF res = <<>> THEN "None" ELSE "list", records |-> res]

\* check_and_sweep: "if not results: return None; elif len(results) == 1:
\* return results[0]; else: return results".  The value is given with its
\* Python shape; the dict is the one record of "records".
check_and_sweep_return(res) ==
  [shape |-> IF res = <<>> THEN "None"
             ELSE IF Len(res) = 1 THEN "dict" ELSE "list",
   records |-> res]

\* "if results:" in the worker loop.
Truthy(ret) == ret.shape # "None" /\ ret.records # <<>>

\* The TransactionLog rows the worker adds: the dict itself, or every
\* element of the list.
LogRows(ret) ==
  IF ret.shape = "dict" THEN <<ret.records[1]>>
  ELSE IF ret.shape = "list" THEN ret.records ELSE <<>>

\* f"Swept {amount} {token_symbol}" and f"Swept {amount} {token_symbol} and
\* {len(results)-1} other asset(s)", by the asset they name.
SweptText(a, others) ==
  IF others
  THEN CASE a = "TRX" -> "Swept TRX and others"
         [] a = "T1" -> "Swept T1 and others"
         [] OTHER -> "Swept T2 and others"
  ELSE CASE a = "TRX" -> "Swept TRX"
         [] a = "T1" -> "Swept T1"
         [] OTHER -> "Swept T2"

\* The status text after a sweep: the dict's symbol, or results[-1]'s.
StatusText(ret) ==
  IF ret.shape = "dict" THEN SweptText(ret.records[1][1], FALSE)
  ELSE SweptText(ret.records[Len(ret.records)][1], TRUE)

\* The cycle has returned: its outcomes are handed to the transaction log,
\* whose commit may raise; the status line of the last sweep, then the
\* polling wait begins.
Report(w) ==
  /\ pc[w] = "report"
  /\ LET ret == check_and_sweep_return(results[w]) IN
     \E ok \in BOOLEAN :
       IF Truthy(ret) /\ ~ok
       THEN /\ UNCHANGED <<ctlVars, hist>>
            /\ remaining' = [remaining EXCEPT ![w] = 0]
            /\ Goto(w, "err_log")
       ELSE /\ IF Truthy(ret)
               THEN /\ \E now \in Now :
                         update_bot_status(StatusText(ret), TRUE, now)
                    /\ hist' = [hist EXCEPT !.logged = LogRows(ret)]
               ELSE UNCHANGED <<ctlVars, hist>>
            /\ remaining' = [remaining EXCEPT ![w] = config.check_interval]
            /\ Goto(w, "sleep")
  /\ results' = [results EXCEPT ![w] = <<>>]
  /\ FreshLocals(w)
  /\ UNCHANGED <<cfgVars, callVars, chainVars, last_trx_balance, token_balances,
                 unswept>>

\* while remaining_time > 0 and bot_running: time.sleep(sleep_time); then
\* config = Config(), inside the loop's try: it raises when the database
\* cannot be read.
Sleep(w) ==
  /\ pc[w] = "sleep"
  /\ IF remaining[w] > 0 /\ bot_running
     THEN /\ remaining' = [remaining EXCEPT ![w] =
                             @ - Min(Min(1, config.check_interval), @)]
          /\ hist' = [hist EXCEPT !.logged = <<>>]
          /\ UNCHANGED pc
     ELSE /\ remaining' = [remaining EXCEPT ![w] = 0]
          /\ hist' = [WaitEnds(hist, w) EXCEPT !.logged = <<>>]
          /\ \E ok \in BOOLEAN :
               Goto(w, IF ok /\ ConfigLoads(config) THEN "loop" ELSE "err_reload")
  /\ UNCHANGED <<cfgVars, ctlVars, callVars, chainVars, last_trx_balance,
                 token_balances, current_balance, tokIdx, token_configs,
                 attempt, errors, amount, results, detected, unswept>>

\* The exception caught by "except Exception as e" inside the loop, by the
\* statement that raised it: the sweep cycle, the transaction log, the
\* reload of the configuration.
ErrPcs == {"err", "err_log", "err_reload"}

\* except Exception inside the loop: the status write and the database
\* write of the status; when that write raises, the exception leaves the
\* loop for the handler of the configuration errors.
LoopError(w) ==
  /\ pc[w] \in ErrPcs
  /\ \E now \in Now : update_bot_status("Error", TRUE, now)
  /\ results' = [results EXCEPT ![w] = <<>>]
  /\ FreshLocals(w)
  /\ \E ok \in BOOLEAN :
       IF ok
       THEN /\ remaining' = [remaining EXCEPT ![w] = config.check_interval]
            /\ Goto(w, "err_wait")
       ELSE /\ remaining' = [remaining EXCEPT ![w] = 0]
            /\ Goto(w, "cfgerr")
  /\ UNCHANGED <<cfgVars, callVars, chainVars, last_trx_balance, token_balances,
                 unswept, hist>>

\* time.sleep(config.check_interval) of the loop's handler: one sleep of
\* the whole interval, then "while bot_running" again.
ErrorWait(w) ==
  /\ pc[w] = "err_wait"
  /\ remaining' = [remaining EXCEPT ![w] = 0]
  /\ Goto(w, "loop")
  /\ hist' = WaitEnds(hist, w)
  /\ UNCHANGED <<cfgVars, ctlVars, callVars, chainVars, last_trx_balance,
                 token_balances, current_balance, tokIdx, token_configs,
                 attempt, errors, amount, results, detected, unswept>>

WorkerStep(w) ==
  \/ Boot(w) \/ LoadConfig(w) \/ ConfigError(w) \/ Finally(w)
  \/ LoopCheck(w) \/ TrxQuery(w) \/ TrxReturn(w) \/ TrxFinally(w)
  \/ TokQuery(w) \/ TokReturn(w) \/ Report(w)
  \/ Sleep(w) \/ LoopError(w) \/ ErrorWait(w)

Next ==
  \/ \E row \in ConfigChoices :
       \E okTokens \in SUBSET Listed(row.token_contracts) :
         SaveConfig(row, okTokens)
  \/ \E t \in Tokens, value \in BOOLEAN : TokenSetEnabled(t, value)
  \/ \E t \in Tokens, value \in TokenMinimums : TokenSetMinimum(t, value)
  \/ \E d \in TrxDeposits : DepositTrx(d)
  \/ \E d \in TrxDrains : DrainTrx(d)
  \/ \E t \in Tokens, d \in TokDeposits : DepositToken(t, d)
  \/ \E t \in Tokens, d \in TokDrains : DrainToken(t, d)
  \/ \E a \in Assets : Settle(a)
  \/ start_bot
  \/ stop_bot
  \/ \E w \in Workers : WorkerStep(w)

Spec == Init /\ [][Next]_vars

\* The control surface under any sequence of calls, on a quiet chain: funds
\* arrive and broadcast transfers are confirmed, nothing else touches the
\* wallet, the token rows stay as POST /config wrote them and its
\* get_token_info calls succeed.
RestartNext ==
  \/ \E row \in ConfigChoices :
       ~hasConfig /\ SaveConfig(row, Listed(row.token_contracts))
  \/ \E d \in TrxDeposits : DepositTrx(d)
  \/ \E t \in Tokens, d \in TokDeposits : DepositToken(t, d)
  \/ \E a \in Assets : Settle(a)
  \/ start_bot
  \/ stop_bot
  \/ \E w \in Workers : WorkerStep(w)

RestartSpec == Init /\ [][RestartNext]_vars

\* The sweep engine alone: a worker inside "while bot_running" whose
\* TronSweeper was constructed from a valid Config, never stopped.
RetryChoices == {2, DefaultMaxRetries}

ConfigsWith(flags, lists) ==
  { [sweep_trx |-> f, sweep_trc20 |-> tcs # <<>>, token_contracts |-> tcs,
     min_transfer_amount |-> 0, max_retries |-> r, check_interval |-> 1] :
       f \in flags, tcs \in lists, r \in RetryChoices }

\* Native only, or one token only.
SweeperConfigs ==
  {c \in ConfigsWith(BOOLEAN, {<<>>, <<"T1">>}) : c.sweep_trx # c.sweep_trc20}

\* The worker is at the top of its loop; the wallet holds the funds that
\* arrived since the baselines were taken, on top of the native balance
\* the sweeper cached when it was built.
LoopInitAt(configs, cached, trxFunds, tokFunds) ==
  /\ hasConfig = TRUE
  /\ config \in configs
  /\ saved = config
  /\ api_keys = {}
  /\ api_key = NoKey
  /\ api_call = NoApiCall
  /\ registry = [t \in Tokens |->
                   IF config.sweep_trc20 /\ t \in Listed(config.token_contracts)
                   THEN NewToken ELSE NoToken]
  /\ bot_running = TRUE
  /\ bot_status = "Monitoring"
  /\ bot_last_check = 1
  /\ writing = [th \in Threads |-> NoWrite]
  /\ lastCall = [op |-> "start", ok |-> TRUE]
  /\ stopPending = FALSE
  /\ \E d \in trxFunds : trxBalance = cached + d
  /\ tokBalance \in [Tokens -> tokFunds]
  /\ \A t \in Tokens \ Watched : tokBalance[t] = 0
  /\ lag = [a \in Assets |-> 0]
  /\ pc = [w \in Workers |-> IF w = 1 THEN "loop" ELSE "none"]
  /\ last_trx_balance = [w \in Workers |-> IF w = 1 THEN cached ELSE 0]
  /\ token_balances = [w \in Workers |-> [t \in Tokens |-> 0]]
  /\ current_balance = [w \in Workers |-> NoBal]
  /\ tokIdx = [w \in Workers |-> 0]
  /\ token_configs = [w \in Workers |-> [t \in Tokens |-> NoToken]]
  /\ attempt = [w \in Workers |-> 0]
  /\ errors = [w \in Workers |-> <<>>]
  /\ amount = [w \in Workers |-> 0]
  /\ results = [w \in Workers |-> <<>>]
  /\ detected = [w \in Workers |-> 0]
  /\ remaining = [w \in Workers |-> 0]
  /\ unswept = [w \in Workers |-> {}]
  /\ hist = NoHist

\* The native baseline is the reserve when it is held, and nothing
\* otherwise.
LoopInit(configs, held, trxFunds, tokFunds) ==
  LoopInitAt(configs, IF held THEN Reserved ELSE 0, trxFunds, tokFunds)

CycleStep(w) ==
  \/ LoopCheck(w) \/ TrxQuery(w) \/ TrxReturn(w) \/ TrxFinally(w)
  \/ TokQuery(w) \/ TokReturn(w) \/ Report(w)
  \/ Sleep(w) \/ LoopError(w) \/ ErrorWait(w)
  \/ ConfigError(w) \/ Finally(w)

SweeperNext ==
  \/ \E d \in TrxDeposits : DepositTrx(d)
  \/ \E d \in TrxDrains : DrainTrx(d)
  \/ \E t \in Tokens, d \in TokDeposits : DepositToken(t, d)
  \/ \E t \in Tokens, d \in TokDrains : DrainToken(t, d)
  \/ \E a \in Assets : Settle(a)
  \/ \E t \in Tokens, value \in BOOLEAN : TokenSetEnabled(t, value)
  \/ \E t \in Tokens, value \in TokenMinimums : TokenSetMinimum(t, value)
  \/ CycleStep(1)

SweeperSpec == LoopInit(SweeperConfigs, TRUE, {0}, {0}) /\ [][SweeperNext]_vars

\* The engine with two tokens, listed in either order, on a wallet that has
\* just received funds and receives nothing more.
OrderConfigs == ConfigsWith({TRUE}, {<<"T1", "T2">>, <<"T2", "T1">>})

OrderNext ==
  \/ \E a \in Assets : Settle(a)
  \/ CycleStep(1)

OrderSpec ==
  LoopInit(OrderConfigs, TRUE, {0} \cup TrxDeposits, {0} \cup TokDeposits)
    /\ [][OrderNext]_vars

\* The engine on its first cycle after funds arrived in an empty wallet, for
\* every combination of the settings the native amount depends on.
CalcConfigs ==
  { [sweep_trx |-> TRUE, sweep_trc20 |-> tok, token_contracts |-> tcs,
     min_transfer_amount |-> m, max_retries |-> DefaultMaxRetries,
     check_interval |-> 1] :
       tok \in BOOLEAN, tcs \in {<<>>, <<"T1">>, <<"T1", "T2">>},
       m \in {0, 10, 100} }

CalcBalances == {0, 3, 5, 6, 15, 16, 104, 105, 106, 205, 215, 304, 305, 500, 1000}

CalcSpec ==
  LoopInit(CalcConfigs, FALSE, CalcBalances, {0} \cup TokDeposits)
    /\ [][OrderNext]_vars

\* The caller of the control surface keeps to the assumption of one engine
\* instance per signing identity: it starts no engine while a worker thread
\* of an earlier start is still alive.
NoWorker == \A w \in Workers : pc[w] = "none"

EngineStart == start_bot /\ (bot_running \/ ~hasConfig \/ NoWorker)

EngineNext ==
  \/ \E row \in ConfigChoices :
       \E okTokens \in SUBSET Listed(row.token_contracts) :
         SaveConfig(row, okTokens)
  \/ \E d \in TrxDeposits : DepositTrx(d)
  \/ \E d \in TrxDrains : DrainTrx(d)
  \/ \E t \in Tokens, d \in TokDeposits : DepositToken(t, d)
  \/ \E t \in Tokens, d \in TokDrains : DrainToken(t, d)
  \/ \E a \in Assets : Settle(a)
  \/ EngineStart
  \/ stop_bot
  \/ \E w \in Workers : WorkerStep(w)

OneEngineSpec == Init /\ [][EngineNext]_vars

\* The caller stops the engine once and then stays silent: after a stop()
\* that returned success the control surface is not called again.  The
\* worker thread is scheduled and its calls return, so every step of a live
\* worker is eventually taken.
StopOnceStart == ~stopPending /\ EngineStart

StopOnceStop == ~stopPending /\ stop_bot

StopOnceNext ==
  \/ \E row \in ConfigChoices :
       \E okTokens \in SUBSET Listed(row.token_contracts) :
         SaveConfig(row, okTokens)
  \/ \E d \in TrxDeposits : DepositTrx(d)
  \/ \E d \in TrxDrains : DrainTrx(d)
  \/ \E t \in Tokens, d \in TokDeposits : DepositToken(t, d)
  \/ \E t \in Tokens, d \in TokDrains : DrainToken(t, d)
  \/ \E a \in Assets : Settle(a)
  \/ StopOnceStart
  \/ StopOnceStop
  \/ \E w \in Workers : WorkerStep(w)

FairStopSpec ==
  Init /\ [][StopOnceNext]_vars /\ \A w \in Workers : WF_vars(WorkerStep(w))

\* ------------------------------------------------------------ vocabulary
Alive(w) == pc[w] # "none"

\* Inside "while bot_running:".
LoopPcs == {"loop", "trx_query", "trx_wait", "trx_finally", "tok_query",
            "tok_wait", "report", "sleep", "err", "err_log", "err_reload",
            "err_wait"}

\* Inside sweeper.check_and_sweep().
CyclePcs == {"trx_query", "trx_wait", "trx_finally", "tok_query", "tok_wait"}

\* Inside tron_client.transfer_trx or transfer_token.
InFlight(w) == pc[w] \in {"trx_wait", "tok_wait"}

\* check_and_sweep_trx holds a balance it has just queried.
TrxQueried(w) == pc[w] = "trx_finally" /\ current_balance[w] # NoBal

\* check_and_sweep_tokens holds a token balance it has just queried.
TokQueried(w) ==
  /\ TokensOn
  /\ pc[w] \in {"tok_wait", "report"}
  /\ current_balance[w] # NoBal

StartFailed == [op |-> "start", ok |-> FALSE]
StopFailed  == [op |-> "stop", ok |-> FALSE]

\* ----------------------------------------------------------------- claims

\* C1: under every interleaving of start(), stop() and the worker, at most
\* one worker loop is alive and no two sweep cycles overlap.
C1_SingleWorker ==
  /\ Cardinality({w \in Workers : pc[w] \in LoopPcs}) <= 1
  /\ Cardinality({w \in Workers : pc[w] \in CyclePcs}) <= 1

\* C2: at most one transfer submission (transfer_trx or transfer_token) is
\* in flight in every reachable state.
C2_OneTransferInFlight ==
  Cardinality({w \in Workers : InFlight(w)}) <= 1

\* C3: after stop() returned success and with no later start(), status()
\* eventually reports running = false with the text Stopped, and stays so.
C3_StopLeadsToStopped ==
  [](stopPending => <>[](~bot_running /\ bot_status = "Stopped"))

\* C4: a start() call made while the controller is Starting or Running
\* returns failure, spawns no worker and leaves status and the running flag
\* unchanged.
C4_StartRejectedWhileRunning ==
  [][(bot_running /\ start_bot) =>
       /\ lastCall' = StartFailed
       /\ UNCHANGED <<bot_running, bot_status, bot_last_check, pc>>]_vars

C4_Witness ==
  /\ bot_running
  /\ lastCall = StartFailed
  /\ \E w \in Workers : Alive(w)

\* C5: a stop() call made while the controller is Stopped returns failure
\* and leaves the running flag, the status text and the last-checked
\* timestamp unchanged.
C5_StopRejectedWhileStopped ==
  [][(~bot_running /\ stop_bot) =>
       /\ lastCall' = StopFailed
       /\ UNCHANGED <<bot_running, bot_status, bot_last_check>>]_vars

C5_Witness ==
  /\ ~bot_running
  /\ bot_status = "Stopped"
  /\ lastCall = StopFailed

\* C6: start() called when no configuration is available returns failure,
\* spawns no background worker and leaves the controller not running.
C6_StartWithoutConfig ==
  [][(~hasConfig /\ start_bot) =>
       /\ lastCall' = StartFailed
       /\ bot_running' = FALSE
       /\ UNCHANGED pc
       /\ \A w \in Workers : pc'[w] = "none"]_vars

C6_Witness ==
  /\ ~hasConfig
  /\ lastCall = StartFailed
  /\ bot_status = "No configuration found"
  /\ ~bot_running

\* C7: once stop() has moved the controller to Stopping (running = false),
\* no step moves it back to running = true unless start() is called again.
C7_NoRestartWithoutStart ==
  [][(stopPending /\ stopPending' /\ ~bot_running) => ~bot_running']_vars

\* C8: for every asset, in a cycle whose queried balance C is not above the
\* cached balance L no transfer is attempted for the asset, and when the
\* asset's processing ends the cached balance equals C (stated for the
\* cycles in which the native balance refresh succeeds and reads the
\* balance the cycle queried).
C8_NoIncreaseSetsCache ==
  [][\A w \in Workers :
       /\ (TrxQuery(w) /\ current_balance'[w] # NoBal /\ detected'[w] = 0)
            => pc'[w] # "trx_wait"
       /\ (TrxFinally(w) /\ current_balance[w] # NoBal /\ detected[w] = 0
             /\ pc'[w] # "err" /\ SeenBal("TRX") = current_balance[w])
            => last_trx_balance'[w] = current_balance[w]
       /\ (TokQuery(w) /\ current_balance'[w] # NoBal /\ detected'[w] = 0)
            => /\ pc'[w] # "tok_wait"
               /\ token_balances'[w][CurToken(w)] = current_balance'[w]]_vars

\* C9: for every asset, in a cycle whose queried balance C is above the
\* cached balance L exactly one detection event fires, and when the asset's
\* processing ends (its balance refresh included) the cached balance equals
\* the asset's actual balance on the chain.
C9_IncreaseSetsCacheToActual ==
  [][\A w \in Workers :
       /\ (TrxQuery(w) /\ current_balance'[w] # NoBal
             /\ current_balance'[w] > last_trx_balance[w])
            => detected'[w] = 1
       /\ (TrxFinally(w) /\ detected[w] = 1 /\ pc'[w] # "err")
            => last_trx_balance'[w] = trxBalance'
       /\ ((TokQuery(w) \/ TokReturn(w)) /\ current_balance'[w] # NoBal
             /\ detected'[w] = 1 /\ pc'[w] # "tok_wait")
            => token_balances'[w][CurToken(w)] = tokBalance'[CurToken(w)]]_vars

\* C10: when every transfer attempt for an asset failed and the asset's
\* balance on the chain stays unchanged, then, provided the worker keeps
\* running cycles whose query of the asset succeeds, a later cycle detects
\* the unswept funds again and attempts a transfer for the asset.
C10_FailureNotForgotten ==
  \A w \in Workers :
    /\ ([]<>TrxQueried(w)) =>
         []("TRX" \in unswept[w] =>
              <>("TRX" \notin unswept[w] \/ pc[w] = "trx_wait"))
    /\ ([]<>TokQueried(w)) =>
         [](Tokens \cap unswept[w] # {} =>
              <>(Tokens \cap unswept[w] = {} \/ pc[w] = "tok_wait"))

\* C11: once a transfer of an asset has succeeded, and as long as no new
\* funds arrive for that asset, no later check of that asset submits another
\* transfer, whether the query shows the transfer or not yet.
C11_NoDuplicateSweep ==
  [][\A w \in Workers :
       /\ (TrxQuery(w) /\ "TRX" \in hist.swept => pc'[w] # "trx_wait")
       /\ (TokQuery(w) /\ CurToken(w) \in hist.swept => pc'[w] # "tok_wait")]_vars

\* An asset was swept, nothing arrived since, and it is checked again.
C11_Witness ==
  \E w \in Workers :
    \/ pc[w] = "trx_query" /\ "TRX" \in hist.swept
    \/ pc[w] = "tok_query" /\ CurToken(w) \in hist.swept

\* C12: for every asset, when the balance on the chain at a check is greater
\* than the balance the previous cycle left on the chain for that asset, the
\* check (its balance query succeeding) detects an increase.
C12_NoDepositMissed ==
  [][\A w \in Workers :
       /\ (/\ TrxQuery(w) /\ current_balance'[w] # NoBal
           /\ hist.left["TRX"] # NoBal /\ trxBalance > hist.left["TRX"])
            => detected'[w] = 1
       /\ (/\ TokQuery(w) /\ current_balance'[w] # NoBal
           /\ hist.left[CurToken(w)] # NoBal
           /\ tokBalance[CurToken(w)] > hist.left[CurToken(w)])
            => detected'[w] = 1]_vars

\* An asset is about to be checked and holds more than the last cycle left.
C12_Witness ==
  \E w \in Workers :
    \/ /\ pc[w] = "trx_query"
       /\ hist.left["TRX"] # NoBal /\ trxBalance > hist.left["TRX"]
    \/ /\ pc[w] = "tok_query"
       /\ hist.left[CurToken(w)] # NoBal
       /\ tokBalance[CurToken(w)] > hist.left[CurToken(w)]

\* A call of transfer_trx or transfer_token by worker w returns a record.
TransferDone(w) ==
  \/ TrxReturn(w) /\ trxBalance' < trxBalance
  \/ TokReturn(w) /\ tokBalance' # tokBalance

\* A call of transfer_trx or transfer_token by worker w raises.
TransferFailed(w) ==
  (TrxReturn(w) \/ TokReturn(w)) /\ Len(errors'[w]) > Len(errors[w])

C14_RetryExhausted ==
  [][\A w \in Workers :
       TransferFailed(w) /\ ~InFlight(w)' =>
         /\ hist.calls[w] = config.max_retries
         /\ errors'[w] = [i \in 1..config.max_retries |-> i]
         /\ results'[w] = results[w]
         /\ trxBalance' = trxBalance /\ tokBalance' = tokBalance]_vars

\* Both calls failed with max_retries = 2; nothing was returned.
C14_Witness ==
  \E w \in Workers :
    /\ pc[w] = "trx_finally"
    /\ config.max_retries = 2
    /\ errors[w] = <<1, 2>>
    /\ results[w] = <<>>

\* The native balance minus the fee and the token reserve.
AfterFees(cur) == cur - TrxFee - Reserved

\* C15: the native amount to sweep is the balance minus the fee and the
\* token reserve when that value is positive and not below the configured
\* minimum (a value equal to the minimum is swept), and nothing is swept
\* otherwise (a negative value counts as 0).
C15_NativeSweepable ==
  [][\A w \in Workers :
       TrxQuery(w) /\ detected'[w] = 1 =>
         LET v == AfterFees(current_balance'[w])
         IN  IF v > 0 /\ v >= config.min_transfer_amount
             THEN pc'[w] = "trx_wait" /\ amount'[w] = v
             ELSE pc'[w] # "trx_wait" /\ amount'[w] = 0]_vars

\* Balance 100, fee 0.5, minimum 1, no reserve: 99.5 is being swept.
C15_Witness ==
  \E w \in Workers :
    /\ pc[w] = "trx_wait"
    /\ current_balance[w] = 1000 /\ config.min_transfer_amount = 10
    /\ Reserved = 0
    /\ amount[w] = 995

\* C16: what a native sweep leaves in the wallet besides the fee, the token
\* reserve, is 10 TRX per configured token contract when token sweeping is
\* enabled and at least one contract is configured, and nothing otherwise; a
\* token sweep withholds nothing.
C16_TokenReserve ==
  [][\A w \in Workers :
       /\ TrxQuery(w) /\ pc'[w] = "trx_wait" =>
            current_balance'[w] - amount'[w] - TrxFee =
              IF config.sweep_trc20 /\ Len(config.token_contracts) >= 1
              THEN TokenReserveEach * Len(config.token_contracts)
              ELSE 0
       /\ TokQuery(w) /\ pc'[w] = "tok_wait" =>
            amount'[w] = current_balance'[w]]_vars

\* Balance 50, fee 0.5, minimum 10, two tokens: 29.5 is being swept.
C16_Witness ==
  \E w \in Workers :
    /\ pc[w] = "trx_wait"
    /\ current_balance[w] = 500 /\ config.min_transfer_amount = 100
    /\ config.sweep_trc20 /\ Len(config.token_contracts) = 2
    /\ amount[w] = 295

\* C17: for a token whose balance increased, the whole balance is swept, with
\* no fee subtracted, unless it is below the applicable minimum (the override
\* of the token's row if there is one, else zero) or not positive; a balance
\* equal to the minimum is swept.
C17_TokenSweepable ==
  [][\A w \in Workers :
       TokQuery(w) /\ detected'[w] = 1 =>
         LET t == CurToken(w)
             cur == current_balance'[w]
             minimum == IF token_configs[w][t].present
                        THEN token_configs[w][t].min_transfer_amount ELSE 0
         IN  IF cur > 0 /\ cur >= minimum
             THEN pc'[w] = "tok_wait" /\ amount'[w] = cur
             ELSE pc'[w] # "tok_wait"]_vars

\* A token with an override minimum is checked while it holds that amount.
C17_Witness ==
  \E w \in Workers :
    /\ pc[w] = "tok_query"
    /\ token_configs[w][CurToken(w)].present
    /\ token_configs[w][CurToken(w)].min_transfer_amount > 0
    /\ SeenBal(CurToken(w)) = token_configs[w][CurToken(w)].min_transfer_amount
    /\ TokenBalanceGet(w, CurToken(w)) = 0

\* C18: a configured token whose row in the registry has enabled = false is
\* skipped: no check of it leads to a call of transfer_token.
C18_DisabledTokenSkipped ==
  [][\A w \in Workers :
       (/\ TokQuery(w)
        /\ registry[CurToken(w)].present
        /\ ~registry[CurToken(w)].enabled
        /\ ~token_configs[w][CurToken(w)].enabled)
         => pc'[w] # "tok_wait"]_vars

\* A token disabled since before the token pass began holds new funds and
\* is about to be checked.
C18_Witness ==
  \E w \in Workers :
    /\ pc[w] = "tok_query"
    /\ registry[CurToken(w)].present
    /\ ~registry[CurToken(w)].enabled
    /\ ~token_configs[w][CurToken(w)].enabled
    /\ SeenBal(CurToken(w)) > TokenBalanceGet(w, CurToken(w))

\* C19: within a cycle, a failure while an asset is processed (a failing
\* query, exhausted retries) does not prevent the assets that follow from
\* being checked: after the native asset the first token is checked, and
\* after a token the next one.
C19_FailureIsolation ==
  [][\A w \in Workers :
       /\ (TrxFinally(w) /\ config.sweep_trc20 /\ config.token_contracts # <<>>)
            => pc'[w] = "tok_query" /\ tokIdx'[w] = 1
       /\ (/\ TokQuery(w) \/ TokReturn(w)
           /\ ~InFlight(w)'
           /\ tokIdx[w] < Len(config.token_contracts))
            => pc'[w] = "tok_query" /\ tokIdx'[w] = tokIdx[w] + 1]_vars

\* The processing of the native asset failed and tokens are configured.
C19_Witness ==
  \E w \in Workers :
    /\ pc[w] = "trx_finally"
    /\ config.sweep_trc20 /\ config.token_contracts # <<>>
    /\ current_balance[w] = NoBal \/ Len(errors[w]) = config.max_retries

\* The order of a cycle: the native asset, then the tokens as configured.
CycleOrder == <<"TRX">> \o config.token_contracts

Place(a) == CHOOSE i \in 1..Len(CycleOrder) : CycleOrder[i] = a

\* C20: within a cycle the native asset is processed before any token and
\* the tokens one after another in configured order; the outcomes of the
\* cycle are in that order, and each successful transfer is among the
\* outcomes the cycle returns exactly once.
C20_OrderedOutcomes ==
  /\ [](\A w \in Workers :
          /\ pc[w] \in {"trx_query", "trx_wait", "trx_finally"}
               => tokIdx[w] = 0 /\ Len(results[w]) <= 1
          /\ \A i, j \in 1..Len(results[w]) :
               i < j => Place(results[w][i][1]) < Place(results[w][j][1]))
  /\ [][\A w \in Workers :
          /\ tokIdx'[w] \in {tokIdx[w], tokIdx[w] + 1, 0}
          /\ TrxReturn(w) /\ trxBalance' < trxBalance
               => results'[w] = Append(results[w], <<"TRX", amount[w]>>)
          /\ TokReturn(w) /\ tokBalance' # tokBalance
               => results'[w] = Append(results[w], <<CurToken(w), amount[w]>>)
          /\ Len(results'[w]) < Len(results[w]) => Report(w)]_vars

\* A cycle in which the native asset and both tokens were swept.
C20_Witness ==
  \E w \in Workers :
    /\ pc[w] = "report"
    /\ Len(results[w]) = 3
    /\ config.token_contracts = <<"T2", "T1">>

\* ------------------------------------------------------------ C21
\* C21: an exception caught by the loop's handler (raised by the sweep
\* cycle, by the transaction log or by the reload of the configuration)
\* does not end the worker: the handler writes the error status with
\* running TRUE and waits, and after the wait the worker is at
\* "while bot_running" again.
C21_LoopErrorSurvives ==
  [][\A w \in Workers :
       /\ LoopError(w) =>
            /\ bot_status' = "Error" /\ bot_running'
            /\ pc'[w] = "err_wait"
       /\ ErrorWait(w) => pc'[w] = "loop"]_vars

\* The handler of the loop has caught the failure of the transaction log
\* after a transfer of the cycle.
C21_Witness ==
  \E w \in Workers : pc[w] = "err_log" /\ hist.swept # {}

\* ------------------------------------------------------------ C22
\* C22: when the reload of the configuration at the end of an iteration
\* raises, the worker reports the error and leaves the loop on its way to
\* the final "Stopped" write: it does not wait for another cycle.
C22_ReloadFailureStops ==
  [][\A w \in Workers :
       LoopError(w) /\ pc[w] = "err_reload" =>
         pc'[w] \in {"cfgerr", "fin", "none"}]_vars

\* The reload has raised and the handler of the loop has caught it.
C22_Witness ==
  \E w \in Workers : pc[w] = "err_reload"

\* ------------------------------------------------------------ C23
\* A running worker, the wallet, and the configuration form saving new
\* rows while the worker runs.
ReloadNext ==
  \/ \E row \in ConfigChoices : SaveConfig(row, Listed(row.token_contracts))
  \/ \E d \in TrxDeposits : DepositTrx(d)
  \/ \E t \in Tokens, d \in TokDeposits : DepositToken(t, d)
  \/ \E a \in Assets : Settle(a)
  \/ CycleStep(1)

ReloadSpec == LoopInit(SweeperConfigs, TRUE, {0}, {0}) /\ [][ReloadNext]_vars

\* C23: the cycles that start after a reload of the configuration use the
\* stored configuration: when the reload at the end of an iteration
\* succeeds, the configuration the sweep decisions read is the row that
\* was saved last.
C23_ReloadTakesStored ==
  [][\A w \in Workers :
       Sleep(w) /\ pc'[w] = "loop" => config' = saved']_vars

\* A native transfer is in flight although the stored configuration has
\* native sweeping switched off.
C23_Witness ==
  \E w \in Workers : pc[w] = "trx_wait" /\ ~saved.sweep_trx

\* ------------------------------------------------------------ C24
\* The native wallet of the end-to-end case (tenths): 10.0 cached when the
\* sweeper was built, 50.0 arrived since, minimum 1.0, no tokens; beside
\* it the token-only rows.
EndToEndConfigs ==
  {[c EXCEPT !.min_transfer_amount = IF c.sweep_trx THEN 10 ELSE 0] :
     c \in SweeperConfigs}

EndToEndSpec ==
  LoopInitAt(EndToEndConfigs, 100, {500}, {0}) /\ [][SweeperNext]_vars

\* Worker w is in the cycle of the end-to-end case: cached 10.0, queried
\* 60.0, native sweeping only.
EndToEndCase(w) ==
  /\ config.sweep_trx /\ ~TokensOn /\ config.min_transfer_amount = 10
  /\ last_trx_balance[w] = 100
  /\ current_balance[w] = 600

\* C24: in the cycle with cached balance 10.0 and queried balance 60.0
\* (fee estimate 0.5, minimum 1.0, no tokens) the amount submitted is 59.5;
\* when the transfer has succeeded and the balance query of the finally
\* block answers, the cycle returns exactly that one outcome and the cached
\* native balance after the cycle is 60.0.
C24_EndToEnd ==
  [][\A w \in Workers :
       /\ TrxQuery(w) /\ EndToEndCase(w)' =>
            amount'[w] = 595 /\ pc'[w] = "trx_wait"
       /\ TransferDone(w) /\ EndToEndCase(w) =>
            results'[w] = <<<<"TRX", 595>>>>
       /\ TrxFinally(w) /\ EndToEndCase(w) /\ results[w] # <<>>
            /\ pc'[w] # "err" =>
            /\ pc'[w] = "report"
            /\ results'[w] = <<<<"TRX", 595>>>>
            /\ last_trx_balance'[w] = 600]_vars

\* The transfer of 59.5 has succeeded and the cycle is at its finally
\* block.
C24_Witness ==
  \E w \in Workers :
    /\ EndToEndCase(w) /\ pc[w] = "trx_finally"
    /\ results[w] = <<<<"TRX", 595>>>>

\* ------------------------------------------------------------ C25
\* C25: on every waiting path of the loop, the polling wait and the wait
\* after an error, the worker sleeps at most one second (one unit of
\* remaining_time) before it reads bot_running again.
C25_SlicedWaits ==
  [][\A w \in Workers :
       /\ Sleep(w) /\ pc'[w] = "sleep" => remaining[w] - remaining'[w] <= 1
       /\ ErrorWait(w) => remaining[w] - remaining'[w] <= 1]_vars

\* stop() was accepted while the worker is in the wait that follows an
\* error, with more than one second left to sleep.
C25_Witness ==
  \E w \in Workers :
    pc[w] = "err_wait" /\ remaining[w] > 1 /\ ~bot_running /\ stopPending

\* ------------------------------------------------------------ C26
\* The status globals with the assignments of update_bot_status taken one
\* at a time, as the interpreter may switch threads between them: the
\* request thread (0) in start_bot and stop_bot, and the status writes of
\* the worker threads, whose sweeping is left out.
statusFrame == <<cfgVars, stopPending, chainVars, sweepVars>>

\* Thread th enters update_bot_status(status, running).
EnterUpdate(th, status, running) ==
  /\ writing[th] = NoWrite
  /\ writing' = [writing EXCEPT ![th] =
                   [status |-> status, running |-> running, step |-> 1]]
  /\ UNCHANGED <<bot_status, bot_running, bot_last_check>>

\* bot_status = status
WriteStatus(th) ==
  /\ writing[th].step = 1
  /\ bot_status' = writing[th].status
  /\ writing' = [writing EXCEPT ![th].step = 2]
  /\ UNCHANGED <<bot_running, bot_last_check, pc, lastCall, statusFrame>>

\* bot_running = running
WriteRunning(th) ==
  /\ writing[th].step = 2
  /\ bot_running' = writing[th].running
  /\ writing' = [writing EXCEPT ![th].step = 3]
  /\ UNCHANGED <<bot_status, bot_last_check, pc, lastCall, statusFrame>>

\* bot_last_check = datetime.now(); the call returns.  start_bot then
\* starts the thread.
WriteLastCheck(th) ==
  /\ writing[th].step = 3
  /\ \E now \in Now : bot_last_check' = now
  /\ writing' = [writing EXCEPT ![th] = NoWrite]
  /\ IF th = 0 /\ writing[th].status = "Starting..."
     THEN pc' = [pc EXCEPT ![CHOOSE w \in FreeSlots :
                                \A v \in FreeSlots : w <= v] = "boot"]
     ELSE UNCHANGED pc
  /\ UNCHANGED <<bot_status, bot_running, lastCall, statusFrame>>

\* start_bot up to its call of update_bot_status("Starting...", True).
StartCall ==
  /\ ~bot_running /\ hasConfig /\ FreeSlots # {}
  /\ EnterUpdate(0, "Starting...", TRUE)
  /\ lastCall' = [op |-> "start", ok |-> TRUE]
  /\ UNCHANGED <<pc, statusFrame>>

\* stop_bot up to its call of update_bot_status("Stopping...", False).
StopCall ==
  /\ bot_running
  /\ EnterUpdate(0, "Stopping...", FALSE)
  /\ lastCall' = [op |-> "stop", ok |-> TRUE]
  /\ UNCHANGED <<pc, statusFrame>>

\* What run_bot_thread writes from each of its positions, and where it
\* goes: "Running" at its start, "Monitoring" when the configuration is
\* loaded, "Swept" after a cycle with a transfer, "Error" in the loop's
\* handler, "Stopped" in its finally block.
WorkerWrites ==
  { <<"boot", "Running", TRUE, "load">>,
    <<"load", "Monitoring", TRUE, "loop">>,
    <<"report", "Swept", TRUE, "loop">>,
    <<"err", "Error", TRUE, "loop">>,
    <<"fin", "Stopped", FALSE, "none">> }

WorkerWrite(w) ==
  /\ \E e \in WorkerWrites :
       /\ pc[w] = e[1]
       /\ EnterUpdate(w, e[2], e[3])
       /\ Goto(w, e[4])
  /\ UNCHANGED <<lastCall, statusFrame>>

\* while bot_running: a cycle that ends with a transfer, with an
\* exception or with neither; the loop is left when the flag is down.
WorkerLoop(w) ==
  /\ pc[w] = "loop" /\ writing[w] = NoWrite
  /\ IF bot_running
     THEN \E p \in {"report", "err", "loop"} : Goto(w, p)
     ELSE Goto(w, "fin")
  /\ UNCHANGED <<ctlVars, lastCall, statusFrame>>

StatusNext ==
  \/ StartCall
  \/ StopCall
  \/ \E w \in Workers : WorkerWrite(w) \/ WorkerLoop(w)
  \/ \E th \in Threads : WriteStatus(th) \/ WriteRunning(th) \/ WriteLastCheck(th)

StatusSpec == LoopInit(SweeperConfigs, TRUE, {0}, {0}) /\ [][StatusNext]_vars

\* The status texts that update_bot_status is given with running False.
StoppedTexts == {"Stopped", "Stopping...", "Configuration error",
                 "Critical error", "No configuration found"}

\* C26: what status() returns is the complete result of one call of
\* update_bot_status: the running flag it reports is the one that call was
\* given with the status text it reports.
C26_StatusAtomic ==
  get_bot_status.running = (get_bot_status.status \notin StoppedTexts)

\* A thread is between the first and the second assignment of
\* update_bot_status("Stopping...", False).
C26_Witness ==
  writing[0].step = 2 /\ writing[0].status = "Stopping..."

\* ------------------------------------------------------------ C27
\* C27: while the retry sequence of an asset is in progress the cached
\* balances of the sweeper do not change; apart from the construction of
\* the sweeper and the end of its thread, the cached native balance changes only in the finally block
\* of the native check, and a cached token balance only at a step that ends
\* the processing of that token.
C27_CacheStableInRetry ==
  [][\A w \in Workers :
       /\ InFlight(w) /\ InFlight(w)' =>
            /\ last_trx_balance'[w] = last_trx_balance[w]
            /\ token_balances'[w] = token_balances[w]
       /\ last_trx_balance'[w] # last_trx_balance[w] =>
            TrxFinally(w) \/ LoadConfig(w) \/ Finally(w)
       /\ token_balances'[w] # token_balances[w] =>
            /\ TokQuery(w) \/ TokReturn(w) \/ LoadConfig(w) \/ Finally(w)
            /\ ~InFlight(w)']_vars

\* A token transfer has failed and the next attempt is in progress, with a
\* queried balance above the cached one.
C27_Witness ==
  \E w \in Workers :
    /\ pc[w] = "tok_wait" /\ attempt[w] >= 2
    /\ current_balance[w] > token_balances[w][config.token_contracts[tokIdx[w]]]

\* ------------------------------------------------------------ C28
\* The client alone: its construction and its calls of the node, each sent
\* with the key that is in the header.
ApiKeys == {"k1", "k2", "k3"}

ClientOps == {"get_account_balance", "get_token_info", "get_token_balance",
              "transfer_trx", "transfer_token"}

clientFrame == <<hasConfig, config, saved, registry, ctlVars, callVars,
                 chainVars, pc, sweepVars>>

\* random.choice(self.api_keys), "" without keys.
_get_random_api_key == IF api_keys = {} THEN {NoKey} ELSE api_keys

\* if self.api_keys: headers["TRON-PRO-API-KEY"] = self._get_random_api_key()
_refresh_api_key ==
  IF api_keys # {}
  THEN api_key' \in _get_random_api_key
  ELSE UNCHANGED api_key

\* TronClient.__init__: the header is set when keys are configured.
ClientInit ==
  /\ api_call = NoApiCall /\ api_key = NoKey /\ api_keys # {}
  /\ api_key' \in _get_random_api_key
  /\ api_call' = [op |-> "__init__", key |-> NoKey, ok |-> TRUE]
  /\ UNCHANGED <<api_keys, clientFrame>>

\* A client with keys has been constructed, one without keys needs no
\* header.
ClientReady == api_keys = {} \/ api_call # NoApiCall

\* A call of the node returns.
CallReturns(op) ==
  /\ ClientReady
  /\ api_call' = [op |-> op, key |-> api_key, ok |-> TRUE]
  /\ UNCHANGED <<api_keys, api_key, clientFrame>>

\* A call of the node raises: except Exception: self._refresh_api_key();
\* raise.
CallRaises(op) ==
  /\ ClientReady
  /\ api_call' = [op |-> op, key |-> api_key, ok |-> FALSE]
  /\ _refresh_api_key
  /\ UNCHANGED <<api_keys, clientFrame>>

ClientNext ==
  \/ ClientInit
  \/ \E op \in ClientOps : CallReturns(op) \/ CallRaises(op)

ClientSpec == InitWith(SUBSET ApiKeys) /\ [][ClientNext]_vars

\* C28: when a call of the client raises and several API keys are
\* configured, the header holds a key different from the one the failed
\* call was sent with before the next call is made.
C28_KeySwitched ==
  (~api_call.ok /\ Cardinality(api_keys) >= 2) => api_key # api_call.key

\* transfer_trx has raised with two keys configured.
C28_Witness ==
  /\ ~api_call.ok /\ api_call.op = "transfer_trx"
  /\ Cardinality(api_keys) = 2

\* ------------------------------------------------------------ C29
\* C29: the outcome of every transfer that succeeded in a cycle is handed
\* to the transaction log once: it is collected when the transfer returns,
\* the collected outcomes change otherwise only when the cycle's outcomes
\* are written to the log, all of them at that step, whatever fails later
\* in the cycle.
C29_LoggedOnce ==
  [][\A w \in Workers :
       results'[w] # results[w] =>
         \/ TransferDone(w)
              /\ Len(results'[w]) = Len(results[w]) + 1
              /\ SubSeq(results'[w], 1, Len(results[w])) = results[w]
         \/ Report(w) /\ results'[w] = <<>>]_vars

\* The native transfer of the cycle has succeeded and the cycle was left
\* by an exception.
C29_Witness ==
  \E w \in Workers : pc[w] = "err" /\ results[w] # <<>>

\* ------------------------------------------------------------ C30
\* C30: when the configuration cannot be loaded or the sweeper cannot be
\* built, the worker runs no cycle: it goes through the handler of the
\* configuration errors, which writes running False, to its finally block,
\* whose status write is "Stopped" with running False and ends the thread;
\* a start() made while the flag is down and a configuration exists is
\* accepted and starts a thread.
C30_StartupFailureStops ==
  [][/\ \A w \in Workers :
          /\ LoadConfig(w) =>
               /\ pc'[w] \in {"loop", "cfgerr"}
               /\ ~ConfigLoads(config) => pc'[w] = "cfgerr"
          /\ pc[w] \in {"cfgerr", "fin"} => pc'[w] \in {"cfgerr", "fin", "none"}
          /\ ConfigError(w) => ~bot_running' /\ pc'[w] = "fin"
          /\ Finally(w) =>
               bot_status' = "Stopped" /\ ~bot_running' /\ pc'[w] = "none"
     /\ start_bot /\ ~bot_running /\ hasConfig =>
          /\ lastCall' = [op |-> "start", ok |-> TRUE]
          /\ \E w \in Workers : pc[w] = "none" /\ pc'[w] = "boot"]_vars

\* start() was accepted with a configuration that Config() rejects, and the
\* worker has ended: the controller is stopped.
C30_Witness ==
  /\ hasConfig /\ ~ConfigLoads(config)
  /\ lastCall = [op |-> "start", ok |-> TRUE]
  /\ \A w \in Workers : pc[w] = "none"
  /\ bot_status = "Stopped" /\ ~bot_running

\* ------------------------------------------------------------ C31
\* Token sweeping is enabled and the list of token contracts is empty.
EmptyTokenList == config.sweep_trc20 /\ config.token_contracts = <<>>

\* C31: with token sweeping enabled and an empty list of token contracts
\* the worker never queries a token balance and never submits a token
\* transfer, the outcomes of a cycle are native ones only, and the amount of
\* a native transfer is the queried balance less the fee estimate, with no
\* reserve withheld.
C31_EmptyListInert ==
  [][EmptyTokenList =>
       \A w \in Workers :
         /\ pc'[w] \notin {"tok_query", "tok_wait"}
         /\ ~TokQuery(w) /\ ~TokReturn(w)
         /\ \A i \in 1..Len(results'[w]) : results'[w][i][1] = "TRX"
         /\ TrxQuery(w) /\ pc'[w] = "trx_wait" =>
              amount'[w] = current_balance'[w] - TrxFee]_vars

\* A native transfer of the whole balance less the fee has succeeded with
\* token sweeping enabled and no token listed, and the cycle has returned.
C31_Witness ==
  \E w \in Workers :
    /\ EmptyTokenList /\ pc[w] = "report"
    /\ results[w] = <<<<"TRX", current_balance[w] - TrxFee>>>>

\* ------------------------------------------------------------ C32
\* Config(config_dict) alone.  A dictionary is a record of values with the
\* set of the keys it has no value for: the BotConfig table has no
\* max_retries and no retry_delay column.  min_transfer_amount is in tenths.
ConfigKeys == {"source_private_key", "source_address", "destination_address",
               "tron_network", "check_interval", "min_transfer_amount",
               "max_retries", "retry_delay"}

UnsetChoices ==
  {{}, {"max_retries", "retry_delay"}} \cup {{k} : k \in ConfigKeys}

ConfigDicts ==
  [source_private_key : {"", "key"},
   source_address : {"", "TSource"},
   destination_address : {"", "TDest"},
   tron_network : {"mainnet", "shasta", "nile", "bsc"},
   check_interval : {0, 1, 30},
   min_transfer_amount : {-1, 0, 10},
   max_retries : {-1, 0, 3},
   retry_delay : {0, 1, 5},
   unset : UnsetChoices]

Raised == "ValueError"

\* config_dict.get(key, default)
DictGet(config_dict, key, default) ==
  IF key \in config_dict.unset THEN default ELSE config_dict[key]

\* The required value taken without the "if not value" test.
_get_required_value_Unchecked(config_dict, key) ==
  IF key \in config_dict.unset THEN Raised ELSE config_dict[key]

\* value = config_dict.get(key); if not value: raise ValueError
_get_required_value(config_dict, key) ==
  IF key \in config_dict.unset \/ config_dict[key] = ""
  THEN Raised ELSE config_dict[key]

\* Config.__init__ with a dictionary: the attributes it sets.
ConfigAttrs(config_dict) ==
  [source_private_key |->
     _get_required_value(config_dict, "source_private_key"),
   source_address |-> _get_required_value(config_dict, "source_address"),
   destination_address |->
     _get_required_value(config_dict, "destination_address"),
   tron_network |-> DictGet(config_dict, "tron_network", "mainnet"),
   check_interval |-> DictGet(config_dict, "check_interval", 30),
   min_transfer_amount |-> DictGet(config_dict, "min_transfer_amount", 0),
   max_retries |-> DictGet(config_dict, "max_retries", DefaultMaxRetries),
   retry_delay |-> DictGet(config_dict, "retry_delay", 5)]

\* Config.__init__ raises.
ConfigRaises(config_dict) ==
  LET self == ConfigAttrs(config_dict) IN
    \/ self.source_private_key = Raised
    \/ self.source_address = Raised
    \/ self.destination_address = Raised
    \/ self.tron_network \notin {"mainnet", "shasta", "nile"}
    \/ self.check_interval < 1
    \/ self.min_transfer_amount < 0
    \/ self.max_retries < 0
    \/ self.retry_delay < 1

configFrame == <<hasConfig, registry, clientVars, ctlVars, stopPending,
                 chainVars, pc, sweepVars>>

\* A dictionary is handed to Config.
TakeDict(config_dict) ==
  /\ lastCall.op = None
  /\ saved' = config_dict
  /\ lastCall' = [op |-> "dict", ok |-> TRUE]
  /\ UNCHANGED <<config, configFrame>>

\* Config(config_dict) returns the snapshot or raises.
BuildConfig ==
  /\ lastCall.op = "dict"
  /\ IF ConfigRaises(saved)
     THEN /\ lastCall' = [op |-> "Config", ok |-> FALSE]
          /\ UNCHANGED config
     ELSE /\ lastCall' = [op |-> "Config", ok |-> TRUE]
          /\ config' = ConfigAttrs(saved)
  /\ UNCHANGED <<saved, configFrame>>

ConfigNext ==
  \/ lastCall.op = None /\ \E config_dict \in ConfigDicts : TakeDict(config_dict)
  \/ BuildConfig

ConfigSpec == Init /\ [][ConfigNext]_vars

\* The value the dictionary gives for a key, absent keys included.
Given(key, default) == DictGet(saved, key, default)

\* The dictionary lacks a required value or holds a value out of range.
BadDict ==
  \/ \E key \in {"source_private_key", "source_address", "destination_address"} :
       key \in saved.unset \/ saved[key] = ""
  \/ Given("tron_network", "mainnet") \notin {"mainnet", "shasta", "nile"}
  \/ Given("check_interval", 30) < 1
  \/ Given("min_transfer_amount", 0) < 0
  \/ Given("max_retries", DefaultMaxRetries) < 0
  \/ Given("retry_delay", 5) < 1

\* C32: Config raises whenever a required value is missing, the network is
\* not mainnet, shasta or nile, the interval is below 1, the minimum is
\* negative, the retry count is negative or the retry delay is below 1;
\* every snapshot it returns has interval >= 1, minimum >= 0, retry count
\* >= 0 and retry delay >= 1.
C32_ConfigValidated ==
  lastCall.op = "Config" =>
    /\ BadDict => ~lastCall.ok
    /\ lastCall.ok =>
         /\ config.check_interval >= 1 /\ config.min_transfer_amount >= 0
         /\ config.max_retries >= 0 /\ config.retry_delay >= 1

\* Config has raised for a dictionary whose only fault is an empty
\* destination address.
C32_Witness ==
  /\ lastCall = [op |-> "Config", ok |-> FALSE]
  /\ saved.destination_address = "" /\ saved.unset = {}
  /\ saved.source_private_key # "" /\ saved.source_address # ""
  /\ saved.tron_network = "nile" /\ saved.check_interval = 1
  /\ saved.min_transfer_amount = 0 /\ saved.max_retries = 0
  /\ saved.retry_delay = 1

\* ------------------------------------------------------------ C33
\* C33: the retry delay is slept only between two attempts: not at the step
\* that makes the first attempt, not after the attempt that succeeds, not
\* after the failed attempt that ends the sequence, and once after every
\* failed attempt that another attempt follows; a sequence of a attempts
\* thus sleeps a - 1 times.
C33_DelayBetweenAttempts ==
  [][\A w \in Workers :
       /\ ~InFlight(w) /\ InFlight(w)' => ~hist'.slept[w]
       /\ TransferDone(w) => ~hist'.slept[w]
       /\ TransferFailed(w) =>
            /\ hist'.slept[w] = InFlight(w)'
            /\ InFlight(w)' => hist'.calls[w] = hist.calls[w] + 1
       /\ hist'.slept[w] /\ ~TransferFailed(w) =>
            hist.slept[w] /\ InFlight(w) /\ InFlight(w)']_vars

\* The worker has slept the delay after the first failure and is making
\* its second attempt.
C33_Witness ==
  \E w \in Workers : InFlight(w) /\ hist.slept[w] /\ hist.calls[w] = 2

\* ------------------------------------------------------------ C34
\* A running worker that sweeps the native asset and one token, a wallet
\* that receives nothing more, and the token settings changed while the
\* worker runs.
RegistryConfigs == ConfigsWith({TRUE}, {<<"T1">>})

RegistryNext ==
  \/ \E a \in Assets : Settle(a)
  \/ \E t \in Tokens, value \in BOOLEAN : TokenSetEnabled(t, value)
  \/ \E t \in Tokens, value \in TokenMinimums : TokenSetMinimum(t, value)
  \/ CycleStep(1)

RegistrySpec ==
  LoopInit(RegistryConfigs, TRUE, {0} \cup TrxDeposits, {0} \cup TokDeposits)
    /\ [][RegistryNext]_vars

\* The step at which worker w enters the token pass of its cycle and
\* queries the TokenConfig rows.
TokenPassStarts(w) ==
  (LoopCheck(w) \/ TrxFinally(w)) /\ pc'[w] = "tok_query"

NoRows == [t \in Tokens |-> NoToken]

\* C34: a change of a token's row (enabled, minimum) made while a cycle is
\* in progress does not affect that cycle: the rows its token pass works
\* with are those of the time the cycle started (or none, when the query
\* fails), and they stay the same during the pass.
C34_RowsOfCycleStart ==
  [][\A w \in Workers :
       /\ TokenPassStarts(w) => token_configs'[w] \in {hist'.rows[w], NoRows}
       /\ pc[w] \in {"tok_query", "tok_wait"} /\ pc'[w] \in {"tok_query", "tok_wait"}
            => token_configs'[w] = token_configs[w]]_vars

\* The minimum of the token was changed while the worker was in the native
\* part of its cycle.
C34_Witness ==
  \E w \in Workers :
    /\ pc[w] \in {"trx_query", "trx_wait", "trx_finally"} /\ TokensOn
    /\ hist.rows[w] # EnabledRows

\* ------------------------------------------------------------ C35
\* The configurations of the sweeper with max_retries 0 beside 2.
ZeroRetryConfigs ==
  {[c EXCEPT !.max_retries = r] : c \in SweeperConfigs, r \in {0, 2}}

ZeroRetrySpec ==
  LoopInit(ZeroRetryConfigs, TRUE, {0}, {0}) /\ [][SweeperNext]_vars

CycleStarts(w) == LoopCheck(w) /\ pc'[w] \in CyclePcs

\* C36: while the last successful control call is stop(), a worker that has
\* finished the cycle that stop arrived in, and the wait after it, begins no
\* sweep cycle.
C36_NoCycleAfterStop ==
  [][\A w \in Workers :
       stopPending /\ hist.waited[w] = "stop" => ~CycleStarts(w)]_vars

\* A stop is pending and the worker is back at the loop condition after the
\* wait that followed the cycle the stop arrived in.
C36_Witness ==
  \E w \in Workers :
    stopPending /\ hist.waited[w] = "stop" /\ pc[w] = "loop"

\* ------------------------------------------------------------ C37
\* start_bot and stop_bot called by two request threads, the interpreter
\* switching threads between their statements.  A request thread that has
\* returned True from start_bot keeps the mark step = 4 until another call
\* of start_bot passes the checks, so two marks mean two calls that were
\* inside start_bot together.
Idle(th) == writing[th].step \in {0, 4}

StartedMark == [status |-> "Starting...", running |-> TRUE, step |-> 4]

\* if bot_running: return False
StartRefused(th) ==
  /\ Idle(th) /\ bot_running
  /\ lastCall # [op |-> "start", ok |-> FALSE]
  /\ lastCall' = [op |-> "start", ok |-> FALSE]
  /\ UNCHANGED <<ctlVars, pc, statusFrame>>

\* start_bot from "if bot_running" to its call of update_bot_status: the
\* flag is read False, the BotConfig row is found and committed.
StartEnters(th) ==
  /\ Idle(th) /\ ~bot_running /\ hasConfig
  /\ writing' = [t \in Threads |->
                   IF t = th
                   THEN [status |-> "Starting...", running |-> TRUE, step |-> 1]
                   ELSE IF writing[t].step = 4 THEN NoWrite ELSE writing[t]]
  /\ UNCHANGED <<bot_status, bot_running, bot_last_check, pc, lastCall,
                 statusFrame>>

\* stop_bot up to its call of update_bot_status("Stopping...", False).
StopEnters(th) ==
  /\ Idle(th) /\ bot_running
  /\ writing' = [writing EXCEPT ![th] =
                   [status |-> "Stopping...", running |-> FALSE, step |-> 1]]
  /\ UNCHANGED <<bot_status, bot_running, bot_last_check, pc, lastCall,
                 statusFrame>>

\* The last assignment of update_bot_status in a request thread; start_bot
\* then starts bot_thread and returns True, stop_bot returns True.
RequestReturns(th) ==
  /\ writing[th].step = 3
  /\ \E now \in Now : bot_last_check' = now
  /\ IF writing[th].status = "Starting..."
     THEN /\ FreeSlots # {}
          /\ pc' = [pc EXCEPT ![CHOOSE w \in FreeSlots :
                                   \A v \in FreeSlots : w <= v] = "boot"]
          /\ writing' = [writing EXCEPT ![th] = StartedMark]
          /\ lastCall' = [op |-> "start", ok |-> TRUE]
     ELSE /\ writing' = [writing EXCEPT ![th] = NoWrite]
          /\ lastCall' = [op |-> "stop", ok |-> TRUE]
          /\ UNCHANGED pc
  /\ UNCHANGED <<bot_status, bot_running, statusFrame>>

StartRaceNext ==
  \/ ~hasConfig /\ \E row \in ConfigChoices : SaveConfig(row, {})
  \/ \E th \in Requests : StartRefused(th) \/ StartEnters(th) \/ StopEnters(th)
  \/ \E th \in Requests : RequestReturns(th)
  \/ \E w \in Workers : WorkerWrite(w) \/ WorkerLoop(w) \/ WriteLastCheck(w)
  \/ \E th \in Threads : WriteStatus(th) \/ WriteRunning(th)

StartRaceSpec == Init /\ [][StartRaceNext]_vars

\* C37: two calls of start_bot that were inside it together do not both
\* return True (each call that returns True has started a worker thread).
C37_OneStartWins ==
  ~(\A th \in Requests : writing[th] = StartedMark)

\* Both request threads are inside start_bot, past its checks.
C37_Witness ==
  \A th \in Requests :
    writing[th].status = "Starting..." /\ writing[th].step \in 1..3

\* ------------------------------------------------------------ C38
\* Worker w submits the first transfer of a retry sequence for asset a.
Submits(w, a) ==
  /\ ~InFlight(w) /\ InFlight(w)'
  /\ a = IF pc'[w] = "trx_wait" THEN "TRX" ELSE CurToken(w)

\* C38: the funds in the wallet when the sweeper is built are its baseline:
\* an asset for which nothing has arrived since then (so that its balance
\* cannot exceed the balance it had at that moment) is not transferred.
C38_BaselineNotSwept ==
  [][\A w \in Workers : \A a \in hist.fresh : ~Submits(w, a)]_vars

\* The sweeper was built on a wallet that holds tokens, the initial balance
\* query of the token failed, and nothing has arrived since.
C38_Witness ==
  \E w \in Workers : \E t \in Tokens :
    /\ t \in hist.fresh /\ pc[w] = "loop"
    /\ tokBalance[t] > 0 /\ token_balances[w][t] = 0

\* ------------------------------------------------------------ C39
\* C39: while a retry sequence lasts, the amount the attempts submit and the
\* configuration that names the destination stay what they were at the
\* first attempt, whatever arrives in the wallet or is saved meanwhile.
C39_SameAmountEachAttempt ==
  [][\A w \in Workers :
       InFlight(w) /\ InFlight(w)' =>
         amount'[w] = amount[w] /\ config' = config]_vars

\* A later attempt is in flight with the amount of the first one although
\* the balance of the asset is no longer the one the amount was taken from.
C39_Witness ==
  \E w \in Workers :
    /\ InFlight(w) /\ attempt[w] >= 2 /\ amount[w] > 0
    /\ SeenBal(IF pc[w] = "trx_wait" THEN "TRX" ELSE CurToken(w))
         # current_balance[w]

====
